---- MODULE Spec2Model ----
(***************************************************************************)
(* ETL data migration pipeline: the command line entry point main() and    *)
(* ETLOrchestrator (src/src/pipeline/orchestrator.py) with the collaborators*)
(* it drives: CSVExtractor, DatabaseExtractor, DataValidator,              *)
(* DatabaseLoader and PipelineMetrics.                                     *)
(*                                                                         *)
(* A DataFrame is modelled by its number of rows.  Every call the          *)
(* orchestrator makes on a collaborator is appended to `trace`.            *)
(***************************************************************************)
EXTENDS Integers, Sequences, FiniteSets, TLC

\* Largest number of rows a source table holds.
MaxRows == 2

\* Largest number of times the command line is invoked in a row.
MaxRuns == 2

\* Python's None, as a command line value for --table.
None == "None"

\* Values of --table: absent, the empty string, the three known tables and
\* a table the orchestrator has no source for.
TableArgs == {None, "", "orders", "customers", "products", "inventory"}

\* argparse choices for --mode.
Modes == {"full", "incremental"}

\* Outcome of one extractor / cleaner / loader call that raised.
Fail == -1

RowCounts == 0..MaxRows

VARIABLES
    mode,             \* args.mode
    table,            \* args.table
    pc,               \* position of the single control flow
    exc,              \* exception in flight ("" when there is none)
    csv_tables,       \* tables the CSV loop of _extract_phase still has to visit
    extracted_data,   \* dict of _extract_phase: sequence of <<table, rows>>
    transformed_data, \* dict of _transform_phase: sequence of <<table, rows>>
    idx,              \* position of the running for-loop in an items() view
    target,           \* rows of each table in the target warehouse
    trace,            \* calls made on the collaborators, in order
    exit_code,        \* process exit code, -1 while the process runs
    validator,        \* the validator capability the orchestrator is given
    run_no,           \* number of the current invocation of main()
    previous          \* trace, exception and target at the end of the
                      \* invocation before the current one

vars == <<mode, table, pc, exc, csv_tables, extracted_data, transformed_data,
          idx, target, trace, exit_code, validator, run_no, previous>>

\* What no step of main() or of the orchestrator assigns.
frame == <<validator, run_no, previous>>

----------------------------------------------------------------------------
\* Helpers: dictionaries with insertion order, events.

\* Index of key k in dict d, 0 when absent.
DictIndex(d, k) ==
    IF \E i \in 1..Len(d) : d[i][1] = k
    THEN CHOOSE i \in 1..Len(d) : d[i][1] = k
    ELSE 0

\* d[k] = v : a new key goes last, an existing key keeps its position.
DictSet(d, k, v) ==
    IF DictIndex(d, k) = 0
    THEN Append(d, <<k, v>>)
    ELSE [d EXCEPT ![DictIndex(d, k)] = <<k, v>>]

DictKeys(d) == {d[i][1] : i \in 1..Len(d)}

\* One call on a collaborator.
\* op: the method; table: its table argument ("" when it has none); args: its
\* integer arguments; status: its status argument; ctx: the context mapping of
\* handle_error as a set of <<key, value>> pairs.
Ev(op, t, args, s, ctx) ==
    [op |-> op, table |-> t, args |-> args, status |-> s, ctx |-> ctx]

\* ErrorHandler.handle_error(error, context): records the error with its
\* context, returns nothing and never raises.
HandleError(ctx) == Ev("handle_error", "", <<>>, "", ctx)

\* DataCleaner.clean(df, table) on a frame of n rows: it raises, or returns a
\* frame with at most n rows.
CleanOutcomes(n) == {Fail} \cup 0..n

\* Python truthiness of args.table.
Truthy(t) == t # None /\ t # ""

\* run_id built by run_full_pipeline / run_incremental_pipeline (the time
\* stamp is the same for the whole run).
FullRunId == "run_T"
IncrRunId(t) == "incremental_" \o t \o "_T"
RunId == IF mode = "full" THEN FullRunId ELSE IncrRunId(table)

----------------------------------------------------------------------------
\* The process at the entry of main(), the target warehouse empty.
Start ==
    /\ mode \in Modes
    /\ table \in TableArgs
    /\ pc = "main"
    /\ exc = ""
    /\ csv_tables = <<>>
    /\ extracted_data = <<>>
    /\ transformed_data = <<>>
    /\ idx = 0
    /\ target = [t \in TableArgs \ {None} |-> 0]
    /\ trace = <<>>
    /\ exit_code = -1
    /\ run_no = 1
    /\ previous = [trace |-> <<>>, exc |-> "", target |-> target]

\* The orchestrator with the DataValidator of src/transform/validator.py.
Init == Start /\ validator = "DataValidator"

\* The orchestrator with any validator that has the interface of
\* DataValidator.validate.
InitAnyValidator == Start /\ validator = "any"

----------------------------------------------------------------------------
\* Variant of MainDispatch: incremental mode does not test --table.
MainDispatch_noTableTest(configOk) ==
    IF ~configOk THEN "main_except"
    ELSE IF mode = "full" THEN "full_start"
    ELSE "incr_start"

\* Variant of MainDispatch: a missing --table ends main without sys.exit(1).
MainDispatch_returns(configOk) ==
    IF ~configOk THEN "main_except"
    ELSE IF mode = "full" THEN "full_start"
    ELSE IF ~Truthy(table) THEN "returned"
    ELSE "incr_start"

\* main(), lines 358-367: build the orchestrator and dispatch on --mode.
\* The constructor reads the configuration file and may raise.
MainDispatch(configOk) ==
    IF ~configOk THEN "main_except"
    ELSE IF mode = "full" THEN "full_start"
    ELSE IF ~Truthy(table) THEN "sys_exit"
    ELSE "incr_start"

Main ==
    /\ pc = "main"
    /\ \E configOk \in BOOLEAN :
          /\ pc' = MainDispatch(configOk)
          /\ exc' = IF configOk THEN "" ELSE "ConfigError"
    /\ UNCHANGED <<frame, mode, table, csv_tables, extracted_data, transformed_data,
                   idx, target, trace, exit_code>>

\* main(), lines 364-366: --table is required for incremental mode.
MissingTableExit ==
    /\ pc = "sys_exit"
    /\ exit_code' = 1
    /\ pc' = "exited"
    /\ UNCHANGED <<frame, mode, table, exc, csv_tables, extracted_data,
                   transformed_data, idx, target, trace>>

----------------------------------------------------------------------------
\* run_full_pipeline, lines 80-83: register the run.
StartFull ==
    /\ pc = "full_start"
    /\ trace' = Append(trace, Ev("start_pipeline", "", <<>>, "RUNNING", {<<"run_id", RunId>>}))
    /\ pc' = "extract_init"
    /\ UNCHANGED <<frame, mode, table, exc, csv_tables, extracted_data,
                   transformed_data, idx, target, exit_code>>

\* _extract_phase, line 170.
CsvTables(t) == IF Truthy(t) THEN <<t>> ELSE <<"orders", "customers">>

\* Variant of ReadsSqlite: the SQLite source is read whatever --table is.
ReadsSqlite_always(t) == TRUE

\* _extract_phase, line 184.
ReadsSqlite(t) == t = None \/ t = "products"

\* _extract_phase, lines 166-170.  CSVExtractor.__init__ raises
\* FileNotFoundError when the source directory does not exist; the call is
\* outside every try of _extract_phase.
ExtractInit ==
    /\ pc = "extract_init"
    /\ \E pathExists \in BOOLEAN :
          IF pathExists
          THEN /\ csv_tables' = CsvTables(table)
               /\ pc' = "extract_csv"
               /\ exc' = exc
          ELSE /\ csv_tables' = csv_tables
               /\ pc' = "except"
               /\ exc' = "FileNotFoundError"
    /\ extracted_data' = <<>>
    /\ UNCHANGED <<frame, mode, table, transformed_data, idx, target, trace, exit_code>>

\* Variant of ExtractResult: a table whose extraction raised is kept, empty.
ExtractResult_keepFailed(d, t, r) == IF r = Fail THEN DictSet(d, t, 0) ELSE DictSet(d, t, r)

\* Lines 175-176 and 192-193: the dict after one extraction attempt that
\* returned r rows, or raised (r = Fail).
ExtractResult(d, t, r) == IF r = Fail THEN d ELSE DictSet(d, t, r)

\* Lines 175-181 and 192-198: the calls of one extraction attempt.
ExtractCalls(op, t, r) ==
    IF r = Fail
    THEN << Ev(op, t, <<r>>, "", {}),
            HandleError({<<"table", t>>}) >>
    ELSE << Ev(op, t, <<r>>, "", {}),
            Ev("record_extraction", t, <<r>>, "", {}) >>

\* Variant of AfterExtractFailure: the except clause re-raises.
AfterExtractFailure_reraise(nextPc) == "except"

\* Lines 179-181 and 196-198: the except clause of an extraction attempt does
\* not re-raise, so control goes on to the statement after the try.
AfterExtractFailure(nextPc) == nextPc

\* _extract_phase, lines 172-181: one iteration of the CSV loop.
ExtractCSV ==
    /\ pc = "extract_csv"
    /\ csv_tables # <<>>
    /\ \E r \in {Fail} \cup RowCounts :
         LET t == Head(csv_tables)
             nextPc == IF Tail(csv_tables) = <<>> THEN "extract_db" ELSE "extract_csv"
         IN /\ extracted_data' = ExtractResult(extracted_data, t, r)
            /\ trace' = trace \o ExtractCalls("csv_extract", t, r)
            /\ pc' = IF r = Fail THEN AfterExtractFailure(nextPc) ELSE nextPc
            /\ exc' = IF pc' = "except" THEN "ExtractionError" ELSE exc
    /\ csv_tables' = Tail(csv_tables)
    /\ UNCHANGED <<frame, mode, table, transformed_data, idx, target, exit_code>>

\* _extract_phase, lines 184-200: the SQLite source, then return.
ExtractDB ==
    /\ pc = "extract_db"
    /\ IF ReadsSqlite(table)
       THEN \E r \in {Fail} \cup RowCounts :
              /\ extracted_data' = ExtractResult(extracted_data, "products", r)
              /\ trace' = trace \o ExtractCalls("db_extract", "products", r)
              /\ pc' = IF r = Fail THEN AfterExtractFailure("check_extracted")
                       ELSE "check_extracted"
              /\ exc' = IF pc' = "except" THEN "ExtractionError" ELSE exc
       ELSE /\ pc' = "check_extracted"
            /\ UNCHANGED <<extracted_data, trace, exc>>
    /\ UNCHANGED <<frame, mode, table, csv_tables, transformed_data, idx, target, exit_code>>

\* Variant of CheckExtractedPc: an empty dict is raised as an error.
CheckExtractedPc_raise(d) == IF d = <<>> THEN "except" ELSE "transform"

\* run_full_pipeline, lines 92-94: an empty dict ends the run with a bare
\* return.
CheckExtractedPc(d) == IF d = <<>> THEN "returned" ELSE "transform"

CheckExtracted ==
    /\ pc = "check_extracted"
    /\ pc' = CheckExtractedPc(extracted_data)
    /\ idx' = 1
    /\ transformed_data' = <<>>
    /\ UNCHANGED <<frame, mode, table, exc, csv_tables, extracted_data, target,
                   trace, exit_code>>

----------------------------------------------------------------------------
\* DataValidator.validate: the same verdict for every input.
Validate(rows, t) == [is_valid |-> TRUE, warnings |-> <<>>, quality_score |-> 100]

\* A verdict of a validator that rejects the frame, with one warning.
Rejected == [is_valid |-> FALSE, warnings |-> <<"warning">>, quality_score |-> 0]

\* The verdicts validator.validate(df_clean, table_name) can return at line
\* 234: that of DataValidator, or that of any validator with its interface.
Verdicts(rows, t) ==
    IF validator = "DataValidator" THEN {Validate(rows, t)}
    ELSE {Validate(rows, t), Rejected}

\* Variant of TransformCalls: the frame is validated before it is cleaned.
TransformCalls_validateFirst(t, n, c, v) ==
    << Ev("validate", t, <<c>>, IF v.is_valid THEN "valid" ELSE "invalid", {}),
       Ev("clean", t, <<n>>, "", {}),
       Ev("apply_business_logic", t, <<c>>, "", {}),
       Ev("record_transformation", t, <<n, c, v.quality_score>>, "", {}) >>

\* _transform_phase, lines 228-254: the calls of one iteration in which no
\* step raises.  n rows go in, the cleaner returns c rows, the verdict is v.
TransformCalls(t, n, c, v) ==
    << Ev("clean", t, <<n>>, "", {}),
       Ev("validate", t, <<c>>, IF v.is_valid THEN "valid" ELSE "invalid", {}),
       Ev("apply_business_logic", t, <<c>>, "", {}),
       Ev("record_transformation", t, <<n, c, v.quality_score>>, "", {}) >>

\* Variant of AfterVerdict: a rejected frame raises.
AfterVerdict_halts(v, nextPc) == IF v.is_valid THEN nextPc ELSE "except"

\* _transform_phase, lines 236-239: a verdict with is_valid false is logged
\* and the iteration goes on.
AfterVerdict(v, nextPc) == nextPc

\* _apply_business_logic, lines 266-288: only the three known tables have
\* column arithmetic that can raise; any other table is returned unchanged.
BusinessLogicCanRaise(t) == t \in {"orders", "customers", "products"}

\* Variant of AfterStepFailure: the except clause swallows the error.
AfterStepFailure_contained(nextPc) == nextPc

\* Variant of AfterStepFailure: the except clause leaves the loop and the run
\* goes on with the load phase.
AfterStepFailure_skipToLoad(nextPc) == "load_init"

\* Lines 256-259 and 314-317: the except clause of a transform or load step
\* reports the error and re-raises it.
AfterStepFailure(nextPc) == "except"

\* Position after the last statement of a loop body: the next iteration, or
\* the statement after the loop.
LoopNext(d, i, loopPc, afterPc) == IF i < Len(d) THEN loopPc ELSE afterPc

\* _transform_phase, lines 224-259: one iteration over extracted_data.items().
\* c is the number of rows cleaner.clean returns (Fail: it raised), b tells
\* whether _apply_business_logic returned.
Transform ==
    /\ pc = "transform"
    /\ idx \in 1..Len(extracted_data)
    /\ LET t == extracted_data[idx][1]
           n == extracted_data[idx][2]
           nextPc == LoopNext(extracted_data, idx, "transform", "load_init")
           errCtx == {<<"table", t>>, <<"phase", "transform">>}
       IN \E c \in CleanOutcomes(n), b \in BOOLEAN :
            IF c = Fail
            THEN /\ trace' = trace \o <<Ev("clean", t, <<n>>, "", {}), HandleError(errCtx)>>
                 /\ pc' = AfterStepFailure(nextPc)
                 /\ exc' = "TransformationError"
                 /\ transformed_data' = transformed_data
            ELSE \E v \in Verdicts(c, t) :
                 LET calls == TransformCalls(t, n, c, v)
                 IN IF AfterVerdict(v, nextPc) = "except"
                    THEN /\ trace' = trace \o SubSeq(calls, 1, 2) \o <<HandleError(errCtx)>>
                         /\ pc' = AfterStepFailure(nextPc)
                         /\ exc' = "TransformationError"
                         /\ transformed_data' = transformed_data
                    ELSE IF BusinessLogicCanRaise(t) /\ ~b
                    THEN /\ trace' = trace \o SubSeq(calls, 1, 3) \o <<HandleError(errCtx)>>
                         /\ pc' = AfterStepFailure(nextPc)
                         /\ exc' = "TransformationError"
                         /\ transformed_data' = transformed_data
                    ELSE /\ trace' = trace \o calls
                         /\ pc' = nextPc
                         /\ exc' = exc
                         /\ transformed_data' = DictSet(transformed_data, t, c)
    /\ idx' = IF pc' = "transform" THEN idx + 1 ELSE 1
    /\ UNCHANGED <<frame, mode, table, csv_tables, extracted_data, target, exit_code>>

\* _load_phase, line 298: DatabaseLoader.__init__ reads the target
\* configuration and creates the engine; it may raise.
LoadInit ==
    /\ pc = "load_init"
    /\ \E ok \in BOOLEAN :
          /\ pc' = IF ok THEN "load" ELSE "except"
          /\ exc' = IF ok THEN exc ELSE "LoadError"
    /\ idx' = 1
    /\ UNCHANGED <<frame, mode, table, csv_tables, extracted_data, transformed_data,
                   target, trace, exit_code>>

\* The mode argument of _load_phase: its default in run_full_pipeline
\* (line 106), "incremental" in run_incremental_pipeline (line 145).
LoadMode == IF mode = "full" THEN "full" ELSE "incremental"

\* Variant of TargetAfterLoad: load_full appends as load_incremental does.
TargetAfterLoad_append(old, n, m) == old + n

\* DatabaseLoader.load_full (if_exists="replace") and load_incremental
\* (if_exists="append"): the rows of the target table after a write of n rows.
TargetAfterLoad(old, n, m) == IF m = "full" THEN n ELSE old + n

\* Variant of LoaderOp: the append write is used whatever the mode.
LoaderOp_append(m) == "load_incremental"

\* _load_phase, line 304: the loader method chosen for the mode.
LoaderOp(m) == IF m = "full" THEN "load_full" ELSE "load_incremental"

\* _load_phase, lines 300-317: one iteration over transformed_data.items().
\* A write that raises leaves the table as it was or, when the table is
\* replaced, dropped.
Load ==
    /\ pc = "load"
    /\ idx \in 1..Len(transformed_data)
    /\ LET t == transformed_data[idx][1]
           n == transformed_data[idx][2]
           nextPc == LoopNext(transformed_data, idx, "load", "finish")
           errCtx == {<<"table", t>>, <<"phase", "load">>}
       IN \E ok \in BOOLEAN, dropped \in BOOLEAN :
            IF ok
            THEN /\ target' = [target EXCEPT ![t] = TargetAfterLoad(@, n, LoadMode)]
                 /\ trace' = trace \o << Ev(LoaderOp(LoadMode), t, <<n>>, "", {}),
                                         Ev("record_load", t, <<n>>, "", {}) >>
                 /\ pc' = nextPc
                 /\ exc' = exc
            ELSE /\ target' = IF dropped /\ LoadMode = "full"
                              THEN [target EXCEPT ![t] = 0] ELSE target
                 /\ trace' = trace \o << Ev(LoaderOp(LoadMode), t, <<Fail>>,
                                            IF dropped /\ LoadMode = "full"
                                            THEN "dropped" ELSE "untouched", {}),
                                         HandleError(errCtx) >>
                 /\ pc' = AfterStepFailure(nextPc)
                 /\ exc' = "LoadError"
    /\ idx' = IF pc' = "load" THEN idx + 1 ELSE 1
    /\ UNCHANGED <<frame, mode, table, csv_tables, extracted_data, transformed_data,
                   exit_code>>

----------------------------------------------------------------------------
\* PipelineMetrics.get_summary: the same mapping for every run.
GetSummary(run_id) ==
    [status |-> "SUCCESS", duration_seconds |-> 0, total_extracted |-> 0,
     total_loaded |-> 0, avg_quality_score |-> 100]

\* _print_summary, lines 321-332.
PrintSummaryCalls(run_id) ==
    LET summary == GetSummary(run_id)
    IN << Ev("get_summary", "", <<>>, "", {<<"run_id", run_id>>}),
          Ev("print_summary", "", <<summary.total_extracted, summary.total_loaded>>,
             summary.status, {}) >>

\* Variant of FinishCalls: the summary is printed before the run is ended.
FinishCalls_summaryFirst(m, run_id) ==
    IF m = "full"
    THEN PrintSummaryCalls(run_id)
         \o <<Ev("end_pipeline", "", <<>>, "SUCCESS", {<<"run_id", run_id>>})>>
    ELSE <<Ev("end_pipeline", "", <<>>, "SUCCESS", {<<"run_id", run_id>>})>>

\* run_full_pipeline, lines 108-113, and run_incremental_pipeline, lines
\* 147-148: the calls made after the load phase returned.
FinishCalls(m, run_id) ==
    IF m = "full"
    THEN <<Ev("end_pipeline", "", <<>>, "SUCCESS", {<<"run_id", run_id>>})>>
         \o PrintSummaryCalls(run_id)
    ELSE <<Ev("end_pipeline", "", <<>>, "SUCCESS", {<<"run_id", run_id>>})>>

Finish ==
    /\ pc = "finish"
    /\ trace' = trace \o FinishCalls(mode, RunId)
    /\ pc' = "returned"
    /\ UNCHANGED <<frame, mode, table, exc, csv_tables, extracted_data,
                   transformed_data, idx, target, exit_code>>

\* Variant of RunErrorContext: the incremental context lacks the table.
RunErrorContext_noTable(m, t, run_id) == {<<"run_id", run_id>>}

\* handle_error context of the run-level except clause: line 118 and line 153.
RunErrorContext(m, t, run_id) ==
    IF m = "full" THEN {<<"run_id", run_id>>}
    ELSE {<<"run_id", run_id>>, <<"table", t>>}

\* Variant of ExceptCalls: the summary is printed for a failed run too.
ExceptCalls_withSummary(m, t, run_id) ==
    << Ev("end_pipeline", "", <<>>, "FAILED", {<<"run_id", run_id>>}),
       HandleError({<<"run_id", run_id>>}) >> \o PrintSummaryCalls(run_id)

\* Variant of ExceptCalls: the error is reported before the run is ended.
ExceptCalls_reportFirst(m, t, run_id) ==
    << HandleError(RunErrorContext(m, t, run_id)),
       Ev("end_pipeline", "", <<>>, "FAILED", {<<"run_id", run_id>>}) >>

\* run_full_pipeline, lines 115-119, and run_incremental_pipeline, lines
\* 150-154: mark the run FAILED, report, re-raise.
ExceptCalls(m, t, run_id) ==
    << Ev("end_pipeline", "", <<>>, "FAILED", {<<"run_id", run_id>>}),
       HandleError(RunErrorContext(m, t, run_id)) >>

RunExcept ==
    /\ pc = "except"
    /\ trace' = trace \o ExceptCalls(mode, table, RunId)
    /\ pc' = "main_except"
    /\ UNCHANGED <<frame, mode, table, exc, csv_tables, extracted_data,
                   transformed_data, idx, target, exit_code>>

----------------------------------------------------------------------------
\* The value of a DataFrame-typed variable: None, or a frame with `rows` rows.
NoneFrame == [isNone |-> TRUE, rows |-> 0]
Frame(n) == [isNone |-> FALSE, rows |-> n]

\* _extract_incremental, lines 202-207: the body is `pass`.
extract_incremental(t) == NoneFrame

\* run_incremental_pipeline, lines 128-131.
StartIncr ==
    /\ pc = "incr_start"
    /\ trace' = Append(trace, Ev("start_pipeline", "", <<>>, "RUNNING", {<<"run_id", RunId>>}))
    /\ pc' = "incr_extract"
    /\ UNCHANGED <<frame, mode, table, exc, csv_tables, extracted_data,
                   transformed_data, idx, target, exit_code>>

\* run_incremental_pipeline, lines 136-141: fetch the delta and test
\* extracted_data.empty; the attribute access raises AttributeError on None.
IncrExtract ==
    /\ pc = "incr_extract"
    /\ LET df == extract_incremental(table)
           callEv == Ev("extract_incremental", table, <<>>, "", {})
       IN IF df.isNone
          THEN /\ pc' = "except"
               /\ exc' = "AttributeError"
               /\ trace' = Append(trace, callEv)
               /\ extracted_data' = extracted_data
          ELSE IF df.rows = 0
          THEN /\ pc' = "returned"
               /\ exc' = exc
               /\ trace' = trace \o << callEv,
                              Ev("end_pipeline", "", <<>>, "SUCCESS_NO_DATA",
                                 {<<"run_id", RunId>>}) >>
               /\ extracted_data' = extracted_data
          ELSE /\ pc' = "transform"
               /\ exc' = exc
               /\ trace' = Append(trace, callEv)
               /\ extracted_data' = <<<<table, df.rows>>>>
    /\ idx' = 1
    /\ transformed_data' = <<>>
    /\ UNCHANGED <<frame, mode, table, csv_tables, target, exit_code>>

----------------------------------------------------------------------------
\* main(), lines 361-367: the pipeline call returned; the process ends with
\* exit code 0.
MainReturn ==
    /\ pc = "returned"
    /\ exit_code' = 0
    /\ pc' = "exited"
    /\ UNCHANGED <<frame, mode, table, exc, csv_tables, extracted_data,
                   transformed_data, idx, target, trace>>

\* main(), lines 369-371: an exception reached main.
MainExcept ==
    /\ pc = "main_except"
    /\ exit_code' = 1
    /\ pc' = "exited"
    /\ UNCHANGED <<frame, mode, table, exc, csv_tables, extracted_data,
                   transformed_data, idx, target, trace>>

Next ==
    \/ Main
    \/ MissingTableExit
    \/ StartFull
    \/ ExtractInit
    \/ ExtractCSV
    \/ ExtractDB
    \/ CheckExtracted
    \/ Transform
    \/ LoadInit
    \/ Load
    \/ Finish
    \/ RunExcept
    \/ StartIncr
    \/ IncrExtract
    \/ MainReturn
    \/ MainExcept

Spec == Init /\ [][Next]_vars

\* The same orchestrator code, driven with any validator.
SpecAnyValidator == InitAnyValidator /\ [][Next]_vars

\* The process at the entry of main() with a target warehouse that earlier
\* runs have filled: every table holds the same number of rows.
InitLoaded ==
    /\ mode \in Modes
    /\ table \in TableArgs
    /\ pc = "main"
    /\ exc = ""
    /\ csv_tables = <<>>
    /\ extracted_data = <<>>
    /\ transformed_data = <<>>
    /\ idx = 0
    /\ \E n \in RowCounts : target = [t \in TableArgs \ {None} |-> n]
    /\ trace = <<>>
    /\ exit_code = -1
    /\ run_no = 1
    /\ previous = [trace |-> <<>>, exc |-> "", target |-> target]
    /\ validator = "DataValidator"

\* The same code, started on a warehouse that may hold rows already.
SpecLoaded == InitLoaded /\ [][Next]_vars

----------------------------------------------------------------------------
\* The command line invoked again after the process has exited, lines
\* 374-375, with the same arguments.  The target warehouse is what the
\* invocation before left.
Rerun ==
    /\ pc = "exited"
    /\ run_no < MaxRuns
    /\ run_no' = run_no + 1
    /\ previous' = [trace |-> trace, exc |-> exc, target |-> target]
    /\ pc' = "main"
    /\ exc' = ""
    /\ csv_tables' = <<>>
    /\ extracted_data' = <<>>
    /\ transformed_data' = <<>>
    /\ idx' = 0
    /\ trace' = <<>>
    /\ exit_code' = -1
    /\ UNCHANGED <<mode, table, target, validator>>

IsPrefix(a, b) == Len(a) <= Len(b) /\ SubSeq(b, 1, Len(a)) = a

\* Identical input: from the second invocation on, the sources, the cleaner
\* and the loader answer every call as they did in the invocation before.
SameAnswers == run_no > 1 => IsPrefix(trace', previous.trace)

\* A step of an invocation whose collaborators answer as before.
RepeatedStep == Next /\ SameAnswers

NextTwice == RepeatedStep \/ Rerun

SpecTwice == Init /\ [][NextTwice]_vars

----------------------------------------------------------------------------
\* Observations on the trace.

Positions(op) == {i \in 1..Len(trace) : trace[i].op = op}

ExtractOps == {"csv_extract", "db_extract"}
TransformOps == {"clean", "validate", "apply_business_logic", "record_transformation"}
LoadOps == {"load_full", "load_incremental", "record_load"}

\* Extraction attempts, and those that raised / returned a frame.
Attempts == {i \in 1..Len(trace) : trace[i].op \in ExtractOps}
FailedAttempts == {i \in Attempts : trace[i].args[1] = Fail}
SucceededAttempts == Attempts \ FailedAttempts

\* Tables for which some extraction attempt before position i returned a frame.
SucceededTablesBefore(i) == {trace[j].table : j \in {k \in SucceededAttempts : k < i}}

\* Statuses passed to end_pipeline, in call order.
RECURSIVE EndStatusesUpTo(_)
EndStatusesUpTo(i) ==
    IF i = 0 THEN <<>>
    ELSE IF trace[i].op = "end_pipeline"
         THEN Append(EndStatusesUpTo(i - 1), trace[i].status)
         ELSE EndStatusesUpTo(i - 1)
EndStatuses == EndStatusesUpTo(Len(trace))

\* Sum of the row counts passed to record_extraction.
RECURSIVE RecordedExtractedUpTo(_)
RecordedExtractedUpTo(i) ==
    IF i = 0 THEN 0
    ELSE IF trace[i].op = "record_extraction"
         THEN RecordedExtractedUpTo(i - 1) + trace[i].args[1]
         ELSE RecordedExtractedUpTo(i - 1)
RecordedExtracted == RecordedExtractedUpTo(Len(trace))

Started == Positions("start_pipeline") # {}

\* The run operation has returned or raised.
RunOver == Started /\ pc \in {"returned", "main_except", "exited"}

\* The run operation raised to its caller.
RunRaised == Started /\ exc # "" /\ pc \in {"main_except", "exited"}

\* A transform or load step (or the loader's construction) raised.
StepFailed == exc \in {"TransformationError", "LoadError"}

\* The extract phase of a full run has returned.
ExtractPhaseReturned ==
    /\ mode = "full"
    /\ Started
    /\ pc \notin {"extract_init", "extract_csv", "extract_db", "except", "main_except"}

\* handle_error calls made by a transform or load step, with their table.
StepErrors == {i \in Positions("handle_error") :
                  \E c \in trace[i].ctx : c[1] = "phase"}
StepErrorTable(i) == (CHOOSE c \in trace[i].ctx : c[1] = "table")[2]

LoadedTables == {trace[i].table : i \in Positions("record_load")}

----------------------------------------------------------------------------
\* C1: a full run in which some extraction attempt failed and some other
\* succeeded, and in which neither transform nor load failed, ends with
\* end_pipeline called with SUCCESS and never with FAILED.
C1_PartialExtractionSucceeds ==
    ( /\ mode = "full"
      /\ RunOver
      /\ FailedAttempts # {}
      /\ SucceededAttempts # {}
      /\ ~StepFailed )
    => EndStatuses = <<"SUCCESS">>

C1_Witness ==
    /\ mode = "full" /\ table = None /\ pc = "exited"
    /\ FailedAttempts # {} /\ SucceededAttempts # {}
    /\ \E i \in FailedAttempts, j \in SucceededAttempts : trace[i].table # trace[j].table
    /\ EndStatuses = <<"SUCCESS">>

\* C2: in a full run every table that is cleaned, validated, given business
\* rules, recorded as transformed or loaded is a table for which an earlier
\* extraction attempt returned a frame, and the keys of the transformed dict
\* are keys of the extracted dict.
C2_OnlyExtractedTablesProcessed ==
    mode = "full" =>
      /\ \A i \in 1..Len(trace) :
            trace[i].op \in TransformOps \cup LoadOps
               => trace[i].table \in SucceededTablesBefore(i)
      /\ DictKeys(transformed_data) \subseteq DictKeys(extracted_data)
      /\ DictKeys(extracted_data) = {trace[j].table : j \in SucceededAttempts}

C2_Witness ==
    /\ mode = "full" /\ table = None /\ pc = "exited"
    /\ \E i \in FailedAttempts : trace[i].table \notin DictKeys(extracted_data)
    /\ LoadedTables # {}
    /\ LoadedTables = DictKeys(extracted_data)

\* C3: after a successful full run, the total_extracted of get_summary(run_id)
\* is the sum of the row counts passed to record_extraction in that run.
C3_SummaryTotalExtracted ==
    ( mode = "full" /\ RunOver /\ EndStatuses = <<"SUCCESS">> )
    => GetSummary(RunId).total_extracted = RecordedExtracted

\* C4: when every extraction attempt of a full run failed, no transform or
\* load step runs, end_pipeline is never called with FAILED and the run
\* operation returns normally.
C4_EmptyExtractionTerminates ==
    ( /\ ExtractPhaseReturned
      /\ Attempts # {}
      /\ SucceededAttempts = {} )
    => /\ \A i \in 1..Len(trace) : trace[i].op \notin TransformOps \cup LoadOps
       /\ \A i \in 1..Len(EndStatuses) : EndStatuses[i] # "FAILED"
       /\ pc \in {"check_extracted", "returned", "exited"}
       /\ exc = ""
       /\ exit_code # 1

C4_Witness ==
    /\ mode = "full" /\ table = None /\ pc = "exited"
    /\ Cardinality(Attempts) = 3
    /\ SucceededAttempts = {}
    /\ exit_code = 0

\* C5: when a transform or load step of a full run fails, the status recorded
\* last is FAILED, the exception reaches the caller, and no table later in the
\* processing order than the failing one is loaded.
C5_StepFailureIsFatal ==
    ( mode = "full" /\ StepFailed )
    => /\ pc \in {"except", "main_except", "exited"}
       /\ \A i \in StepErrors : \A t \in LoadedTables :
             DictIndex(extracted_data, t) < DictIndex(extracted_data, StepErrorTable(i))
       /\ \A i \in StepErrors : \A j \in 1..Len(trace) :
             j > i => trace[j].op \notin TransformOps \cup LoadOps
       /\ pc \in {"main_except", "exited"} => EndStatuses = <<"FAILED">>
       /\ pc = "exited" => exit_code = 1

C5_Witness ==
    /\ mode = "full" /\ table = None /\ pc = "exited"
    /\ exc = "LoadError"
    /\ Len(extracted_data) = 3
    /\ LoadedTables = {"orders"}
    /\ \E i \in StepErrors : StepErrorTable(i) = "customers"
    /\ EndStatuses = <<"FAILED">>

\* C6: every run registered with start_pipeline has, when the run operation
\* has returned or raised, exactly one end_pipeline call, with a status in
\* {SUCCESS, SUCCESS_NO_DATA, FAILED}.
C6_EndPipelineExactlyOnce ==
    RunOver =>
      /\ Len(EndStatuses) = 1
      /\ EndStatuses[1] \in {"SUCCESS", "SUCCESS_NO_DATA", "FAILED"}

\* C7: run_full_pipeline never raises because of a failure that arises in the
\* extract phase, a missing source location included.
C7_ExtractFailuresContained ==
    mode = "full" => ~(RunRaised /\ exc \in {"FileNotFoundError", "ExtractionError"})

\* C8: an incremental run whose delta fetch yields no rows ends with status
\* SUCCESS_NO_DATA, runs no transform or load step and does not raise.
C8_IncrementalNoData ==
    ( /\ mode = "incremental"
      /\ RunOver
      /\ extract_incremental(table).rows = 0 )
    => /\ EndStatuses = <<"SUCCESS_NO_DATA">>
       /\ \A i \in 1..Len(trace) : trace[i].op \notin TransformOps \cup LoadOps
       /\ ~RunRaised

\* C9: with --mode incremental and no --table the process exits with code 1
\* and no call is made on the metrics collector or on any extract, transform
\* or load step.
C9_MissingTableExits ==
    ( mode = "incremental" /\ ~Truthy(table) )
    => /\ trace = <<>>
       /\ pc \in {"main", "sys_exit", "main_except", "exited"}
       /\ pc = "exited" => exit_code = 1

C9_Witness ==
    /\ mode = "incremental" /\ table = None
    /\ pc = "exited" /\ exc = ""
    /\ exit_code = 1 /\ trace = <<>>

\* --table is missing in incremental mode.
MissingTable == mode = "incremental" /\ ~Truthy(table)

\* C10 as stated: the exit code is 1 exactly when the pipeline run raised or
\* --table was missing in incremental mode, and 0 in every other case.
C10_ExitCodeAsStated ==
    pc = "exited" =>
      /\ exit_code \in {0, 1}
      /\ exit_code = 1 <=> (RunRaised \/ MissingTable)

\* C10 as amended: the exit code is 1 exactly when the construction of the
\* orchestrator raised, the pipeline run raised, or --table was missing in
\* incremental mode, and 0 in every other case.
C10_ExitCode ==
    pc = "exited" =>
      /\ exit_code \in {0, 1}
      /\ exit_code = 1 <=> (exc = "ConfigError" \/ RunRaised \/ MissingTable)

C10_Witness ==
    /\ pc = "exited" /\ mode = "full"
    /\ Attempts # {} /\ SucceededAttempts = {}
    /\ EndStatuses = <<>>
    /\ exit_code = 0

----------------------------------------------------------------------------
C12_FullLoadIdempotent ==
    ( /\ mode = "full"
      /\ run_no > 1
      /\ pc = "exited"
      /\ trace = previous.trace
      /\ exc = previous.exc )
    => target = previous.target

C12_Witness ==
    /\ mode = "full" /\ table = None /\ pc = "exited"
    /\ run_no = 2
    /\ trace = previous.trace
    /\ EndStatuses = <<"SUCCESS">>
    /\ \A t \in {"orders", "customers", "products"} : target[t] > 0
    /\ target = previous.target

\* validate calls whose verdict had is_valid false.
InvalidVerdicts == {i \in Positions("validate") : trace[i].status = "invalid"}

RecordOps == {"record_extraction", "record_transformation", "record_load"}

\* C14: within a run, record_extraction, record_transformation and
\* record_load are each called at most once per table name.
C14_NoTableRecordedTwice ==
    \A i, j \in 1..Len(trace) :
       ( /\ i # j
         /\ trace[i].op \in RecordOps
         /\ trace[i].op = trace[j].op )
       => trace[i].table # trace[j].table

\* C15 as stated: once a run is ended with end_pipeline, a summary is
\* produced from get_summary after it, and never before it.
C15_SummaryAfterEveryEnd ==
    /\ \A i \in Positions("get_summary") : \E j \in Positions("end_pipeline") : j < i
    /\ ( RunOver /\ EndStatuses # <<>> )
          => \E i \in Positions("get_summary") :
                \A j \in Positions("end_pipeline") : j < i

\* C15 as amended: a full run that ends in SUCCESS calls
\* end_pipeline(run_id, SUCCESS) and then produces the summary from
\* get_summary(run_id); a run that ends in FAILED, and any incremental run,
\* produces no summary; the summary is never produced before end_pipeline.
C15_SummaryAfterSuccess ==
    /\ \A i \in Positions("get_summary") :
          /\ mode = "full"
          /\ \E j \in Positions("end_pipeline") : j < i /\ trace[j].status = "SUCCESS"
          /\ i < Len(trace) /\ trace[i + 1].op = "print_summary"
    /\ ( RunOver /\ mode = "full" /\ EndStatuses = <<"SUCCESS">> )
          => \E i \in Positions("get_summary") :
                \A j \in Positions("end_pipeline") : j < i
    /\ ( \E k \in 1..Len(EndStatuses) : EndStatuses[k] = "FAILED" )
          => Positions("get_summary") = {}

C15_Witness ==
    /\ mode = "full" /\ pc = "exited"
    /\ EndStatuses = <<"SUCCESS">>
    /\ Cardinality(Positions("get_summary")) = 1
    /\ trace[Len(trace)].op = "print_summary"

\* C16: the status get_summary(run_id) reports is the status set last for the
\* run: RUNNING between start_pipeline and end_pipeline, then the status
\* given to end_pipeline.
C16_SummaryStatusIsCurrent ==
    Started =>
      GetSummary(RunId).status =
         IF EndStatuses = <<>> THEN "RUNNING" ELSE EndStatuses[Len(EndStatuses)]

ExtractPhaseOps == ExtractOps \cup {"record_extraction", "extract_incremental"}

\* C17: every extraction call of a run precedes every transform call, every
\* transform call precedes every load call, and for each table validate
\* directly follows its clean and the business rules directly follow its
\* validate.
C17_PhasesInOrder ==
    /\ \A i, j \in 1..Len(trace) :
          (trace[i].op \in ExtractPhaseOps /\ trace[j].op \in TransformOps) => i < j
    /\ \A i, j \in 1..Len(trace) :
          (trace[i].op \in TransformOps /\ trace[j].op \in LoadOps) => i < j
    /\ \A i \in Positions("validate") :
          i > 1 /\ trace[i - 1].op = "clean" /\ trace[i - 1].table = trace[i].table
    /\ \A i \in Positions("apply_business_logic") :
          i > 1 /\ trace[i - 1].op = "validate" /\ trace[i - 1].table = trace[i].table

C17_Witness ==
    /\ mode = "full" /\ table = None /\ pc = "exited"
    /\ Cardinality(Attempts) = 3
    /\ Cardinality(Positions("apply_business_logic")) = 3
    /\ Cardinality(Positions("record_load")) = 3

\* C18: a failed extraction attempt is followed by one handle_error call
\* whose context holds the table name and the phase tag "extract"; the table
\* does not enter the extracted set by that attempt and the extraction goes
\* on.
C18_ExtractErrorContext ==
    \A i \in FailedAttempts :
       /\ i < Len(trace)
       /\ trace[i + 1].op = "handle_error"
       /\ {<<"table", trace[i].table>>, <<"phase", "extract">>} \subseteq trace[i + 1].ctx
       /\ pc # "except"

ConfiguredTables == {"orders", "customers", "products"}

ScopedOps == ExtractOps \cup RecordOps \cup TransformOps \cup LoadOps

C20_IncrementalFailureIsFatal ==
    ( mode = "incremental" /\ Started /\ exc # "" )
    => /\ pc \in {"except", "main_except", "exited"}
       /\ pc \in {"main_except", "exited"} =>
             /\ EndStatuses = <<"FAILED">>
             /\ \E i \in Positions("handle_error") :
                   /\ trace[i].ctx = {<<"run_id", IncrRunId(table)>>, <<"table", table>>}
                   /\ \A j \in Positions("end_pipeline") : j < i
       /\ pc = "exited" => exit_code = 1

C20_Witness ==
    /\ mode = "incremental" /\ table = "orders" /\ pc = "exited"
    /\ exc = "AttributeError"
    /\ EndStatuses = <<"FAILED">>
    /\ exit_code = 1

----------------------------------------------------------------------------
SummaryOps == {"get_summary", "print_summary"}

\* The last end_pipeline call before position i, 0 when there is none.
LastEndBefore(i) ==
    IF \E j \in Positions("end_pipeline") : j < i
    THEN CHOOSE j \in Positions("end_pipeline") :
            j < i /\ \A k \in Positions("end_pipeline") : k < i => k <= j
    ELSE 0

\* C21: a run marked FAILED produces no summary: neither get_summary nor the
\* summary block is invoked in it, and each of them is invoked only when the
\* end_pipeline call before it had status SUCCESS.
C21_NoSummaryOnFailure ==
    /\ \A i \in 1..Len(trace) :
          trace[i].op \in SummaryOps
             => /\ LastEndBefore(i) # 0
                /\ trace[LastEndBefore(i)].status = "SUCCESS"
    /\ \A j \in Positions("end_pipeline") :
          trace[j].status = "FAILED"
             => \A i \in 1..Len(trace) : trace[i].op \notin SummaryOps

C21_Witness ==
    /\ mode = "full" /\ pc = "exited"
    /\ exc = "TransformationError"
    /\ EndStatuses = <<"FAILED">>
    /\ Positions("record_transformation") # {}
    /\ \A i \in 1..Len(trace) : trace[i].op \notin SummaryOps
    /\ exit_code = 1

\* C22: when the transform phase fails for a table, no load is made for any
\* table of the run, the tables transformed before the failing one included,
\* and the target warehouse is as the run found it.
C22_TransformFailureLoadsNothing ==
    exc = "TransformationError"
    => /\ \A i \in 1..Len(trace) : trace[i].op \notin LoadOps
       /\ target = previous.target

C22_Witness ==
    /\ mode = "full" /\ table = None /\ pc = "exited"
    /\ exc = "TransformationError"
    /\ Len(extracted_data) = 3
    /\ Len(transformed_data) = 2
    /\ \E i \in Positions("record_transformation") : trace[i].args[2] > 0
    /\ \A t \in DictKeys(transformed_data) : target[t] > 0
    /\ target = previous.target

\* handle_error calls that report the failure which ended the run: those of
\* a transform or load step and that of the run level.
FatalReports ==
    {i \in Positions("handle_error") :
        \E c \in trace[i].ctx : c[1] \in {"phase", "run_id"}}

\* The reports are two: first the one with table and phase, then the one with
\* the run id, with the only end_pipeline call, FAILED, between them.
ReportedTwice ==
    /\ Cardinality(FatalReports) = 2
    /\ \E h1, h2 \in FatalReports :
          /\ h1 < h2
          /\ {c[1] : c \in trace[h1].ctx} = {"table", "phase"}
          /\ trace[h2].ctx = {<<"run_id", FullRunId>>}
          /\ \A e \in Positions("end_pipeline") : h1 < e /\ e < h2
    /\ EndStatuses = <<"FAILED">>

\* The report is one, with the run id, after the only end_pipeline call,
\* FAILED.
ReportedOnce ==
    /\ Cardinality(FatalReports) = 1
    /\ \A h \in FatalReports :
          /\ trace[h].ctx = {<<"run_id", FullRunId>>}
          /\ \A e \in Positions("end_pipeline") : e < h
    /\ EndStatuses = <<"FAILED">>

\* C23 as stated: a transform or load failure of a full run is reported to
\* the error handler exactly twice, with table and phase and then with the
\* run id, and end_pipeline(run_id, FAILED) is called once, between the two.
C23_FailureReportedTwice ==
    ( mode = "full" /\ StepFailed /\ pc \in {"main_except", "exited"} )
    => ReportedTwice

\* C23 as amended: a failure of a transform or load step on a table is
\* reported exactly twice, with table and phase and then with the run id,
\* and end_pipeline(run_id, FAILED) is called once, between the two; a
\* failure to construct the loader is reported once, with the run id, after
\* end_pipeline(run_id, FAILED).
C23_StepFailureReportedTwice ==
    ( mode = "full" /\ StepFailed /\ pc \in {"main_except", "exited"} )
    => IF StepErrors # {} THEN ReportedTwice ELSE ReportedOnce

C23_Witness ==
    /\ mode = "full" /\ table = None /\ pc = "exited"
    /\ exc = "LoadError"
    /\ FailedAttempts # {}
    /\ \E i \in StepErrors : <<"phase", "load">> \in trace[i].ctx
    /\ ReportedTwice

====
